---- MODULE Spec2Model ----
(***************************************************************************)
(* Verification model of the companion core:                               *)
(*   - lib/Data/Upgrade.js        (upgradeStartup, upgradeImport)          *)
(*   - lib/Service/ElgatoPlugin.js (the virtual surface socket protocol)   *)
(*   - lib/Resources/Util.js      (toDeviceKey, toGlobalKey, from15to32)   *)
(* Each part has its own specification over the shared variable list.      *)
(***************************************************************************)
EXTENDS Integers, Sequences, FiniteSets, TLC

VARIABLES
    \* ---- lib/Data/Upgrade.js ----
    db,         \* the store: page_config_version and every other key
    upc,        \* position inside upgradeStartup
    ui,         \* the loop variable i of upgradeStartup
    ulog,       \* calls made by the current run of upgradeStartup, in order
    files,      \* backup files on disk, by version suffix (.v<i>)
    runs,       \* number of upgradeStartup runs started
    startDb,    \* the store as the current run found it
    hasImport,  \* which upgrade scripts define upgradeImport
    imp,        \* last upgradeImport call: argument, result, scripts run
    \* ---- lib/Service/ElgatoPlugin.js ----
    sock,       \* per connection: the socket, its listeners, button_listeners
    client,     \* this.client: the socket pushes go to, or NoClient
    surfaces,   \* device ids held by the surface registry
    added,      \* per connection: addDevice calls made by its handlers
    removed,    \* per connection: removeDevice calls made by its handlers
    nev,        \* connections accepted, frames and closes handled so far
    pushed,     \* fillImage commands sent by the handler that ran last
    \* ---- lib/Resources/Util.js ----
    layout,     \* the device the keys are mapped for: keysTotal, keysPerRow
    kcall       \* the last key mapping call: function, argument, result

uvars == <<db, upc, ui, ulog, files, runs, startDb, hasImport, imp>>

pvars == <<sock, client, surfaces, added, removed, nev, pushed>>

kvars == <<layout, kcall>>

vars == <<db, upc, ui, ulog, files, runs, startDb, hasImport, imp,
          sock, client, surfaces, added, removed, nev, pushed, layout, kcall>>

----------------------------------------------------------------------------
(* Bounds of the model *)

\* largest page_config_version / version a store or an exported object carries
MaxStoredVersion == 5
\* number of times upgradeStartup is run on the same store
MaxRuns == 2
\* connections accepted by the service
MaxConns == 2
\* version messages handled on one connection
MaxInits == 2
\* connections accepted, frames handled and closes in one behaviour
MaxEvents == 7
\* rows of the largest device layout
MaxRows == 8
\* largest key number handed to from15to32
MaxLegacyKey == 21

----------------------------------------------------------------------------
(* lib/Data/Upgrade.js *)

\* allUpgrades = [v1tov2, v2tov3]
NumUpgrades == 2

targetVersion == NumUpgrades + 1

\* an absent key or field (undefined)
Unset == 0 - 1

\* no backup file of that name on disk; a file is the one-element sequence of
\* its contents
NoFile == << >>

Steps == 1..NumUpgrades

StoredVersions == 1..MaxStoredVersion

\* db.getKey('page_config_version', 1): the default when the key is unset
getKey(store, default) == IF store.ver = Unset THEN default ELSE store.ver

\* db.setKey('page_config_version', v)
setKey(store, v) == [store EXCEPT !.ver = v]

\* if (currentVersion > targetVersion)
TooNew_never(currentVersion) == FALSE

TooNew(currentVersion) == currentVersion > targetVersion

\* for (let i = currentVersion; ...
LoopStart_fromOne(currentVersion) == 1

LoopStart(currentVersion) == currentVersion

\* ...; i < targetVersion; i++)
LoopCond_inclusive(i) == i <= targetVersion

LoopCond(i) == i < targetVersion

\* allUpgrades[i - 1].upgradeStartup(db): the script rewrites the keys of the
\* store other than page_config_version; the rewrite is recorded in the data
StepUpgradeStartup(store, i) == [store EXCEPT !.data = Append(@, i)]

\* db.getJSON(): the serialized store
getJSON(store) == store

\* the catch block of saveUpgradeCopy: the error is logged and swallowed
AfterCopyError_rethrow == "threw"

AfterCopyError == "apply"

\* fs.writeFileSync(`${db.getCfgFile()}.v${i}`, jsonSave)
WriteCopy_nextName(fs, i, json) == [fs EXCEPT ![i + 1] = << json >>]

WriteCopy(fs, i, json) == [fs EXCEPT ![i] = << json >>]

CopyOutcomes == {"written", "undefined", "error"}

\* upgradeStartup, lines 20-29: read the version, refuse a store that is too new
UpgradeStartupBegin ==
    /\ upc \in {"idle", "done"}
    /\ runs < MaxRuns
    /\ runs' = runs + 1
    /\ startDb' = db
    /\ ulog' = << >>
    /\ LET currentVersion == getKey(db, 1) IN
        IF TooNew(currentVersion)
        THEN /\ upc' = "fatal"
             /\ ui' = 0
        ELSE /\ upc' = "copy"
             /\ ui' = LoopStart(currentVersion)
    /\ UNCHANGED <<db, files, hasImport, imp, pvars, kvars>>

\* the loop test of line 44, and lines 50-53 once the loop is over
UpgradeStartupFinish ==
    /\ upc = "copy"
    /\ ~LoopCond(ui)
    /\ db' = setKey(db, targetVersion)
    /\ ulog' = ulog \o << [op |-> "setKey", i |-> targetVersion] >>
                    \o << [op |-> "save", i |-> 0] >>
    /\ upc' = "done"
    /\ UNCHANGED <<ui, files, runs, startDb, hasImport, imp, pvars, kvars>>

\* saveUpgradeCopy(db, i), lines 31-41 and 45
SaveUpgradeCopy(outcome) ==
    /\ upc = "copy"
    /\ LoopCond(ui)
    /\ ui \in DOMAIN files
    /\ CASE outcome = "written" ->
              /\ files' = WriteCopy(files, ui, getJSON(db))
              /\ ulog' = Append(ulog, [op |-> "copy", i |-> ui])
              /\ upc' = "apply"
         [] outcome = "undefined" ->
              /\ ulog' = Append(ulog, [op |-> "copySkipped", i |-> ui])
              /\ upc' = "apply"
              /\ UNCHANGED files
         [] outcome = "error" ->
              /\ ulog' = Append(ulog, [op |-> "copyError", i |-> ui])
              /\ upc' = AfterCopyError
              /\ UNCHANGED files
    /\ UNCHANGED <<db, ui, runs, startDb, hasImport, imp, pvars, kvars>>

\* allUpgrades[i - 1].upgradeStartup(db), line 46, and i++
RunUpgradeScript ==
    /\ upc = "apply"
    /\ db' = StepUpgradeStartup(db, ui)
    /\ ulog' = Append(ulog, [op |-> "step", i |-> ui])
    /\ ui' = ui + 1
    /\ upc' = "copy"
    /\ UNCHANGED <<files, runs, startDb, hasImport, imp, pvars, kvars>>

----------------------------------------------------------------------------
(* upgradeImport *)

\* allUpgrades[i - 1].upgradeImport(obj), when the script defines one
StepUpgradeImport(obj, i) == [obj EXCEPT !.data = Append(@, i)]

\* const currentVersion = obj.version || 1
ImportVersion(obj) ==
    IF obj.version = Unset \/ obj.version = 0 THEN 1 ELSE obj.version

\* obj.version = targetVersion
StampImport_keepNewer(obj) ==
    [obj EXCEPT !.version = IF ImportVersion(obj) > targetVersion
                            THEN @ ELSE targetVersion]

StampImport(obj) == [obj EXCEPT !.version = targetVersion]

\* if (allUpgrades[i - 1].upgradeImport)
RunsImport_always(i) == TRUE

RunsImport(i) == hasImport[i]

\* the loop of lines 62-67, from i on: the object and the scripts run on it
RECURSIVE ImportLoop(_, _, _)
ImportLoop(obj, i, log) ==
    IF LoopCond(i)
    THEN IF RunsImport(i)
         THEN ImportLoop(StepUpgradeImport(obj, i), i + 1, Append(log, i))
         ELSE ImportLoop(obj, i + 1, log)
    ELSE [obj |-> obj, log |-> log]

\* upgradeImport(obj), lines 59-71
upgradeImport(obj) ==
    LET r == ImportLoop(obj, LoopStart(ImportVersion(obj)), << >>) IN
    [obj |-> StampImport(r.obj), log |-> r.log]

ImportVersions == {Unset} \cup (0..MaxStoredVersion)

\* an exported object, or a result of an earlier import imported again
UpgradeImport ==
    \E o \in [version : ImportVersions, data : {<< >>}]
             \cup (IF imp.called THEN {imp.out} ELSE {}) :
        /\ Len(o.data) <= NumUpgrades
        /\ LET r == upgradeImport(o) IN
            imp' = [called |-> TRUE, arg |-> o, out |-> r.obj, log |-> r.log]
        /\ UNCHANGED <<db, upc, ui, ulog, files, runs, startDb, hasImport, pvars, kvars>>

----------------------------------------------------------------------------
(* lib/Service/ElgatoPlugin.js *)

Conns == 1..MaxConns

\* remote addresses of the peers
Addrs == {"10.0.0.1", "10.0.0.2"}

\* pages and banks (0-based key indices) a client asks for
Pages == {1}
Banks == {0, 1}

\* values of the version field of a version message; Unset: no such field
VersionArgs == {Unset, 0, 1, 2, 3}

\* this.client is undefined
NoClient == 0

\* an undefined property: a property that is set is the one-element sequence
\* of its value
Undefined == << >>

\* id = 'elgato_plugin-' + socket.remoteAddress
DeviceId(addr, id) == <<"elgato_plugin-", addr>>

\* socketResponse: { response: command, arguments: args }
socketResponse(c, command, args) ==
    [to |-> c, type |-> "response", name |-> command, args |-> args]

\* socketCommand: { command: command, arguments: args }
socketCommand(c, command, args) ==
    [to |-> c, type |-> "command", name |-> command, args |-> args]

\* this.graphics.getBank(page, bank).buffer, bank 1-based
getBank(page, bank) == [buffer |-> <<"image", page, bank>>]

\* the socket processIncoming accepts, with the listeners initSocket adds;
\* new_device and close list the API version of each listener, in the order
\* the listeners were added
NewSocket(addr) ==
    [state |-> "open", addr |-> addr, inits |-> 0,
     new_device |-> << >>, request_button |-> 0, get_instances |-> 0,
     close |-> << >>, button_listeners |-> Undefined]

NoSocket ==
    [state |-> "none", addr |-> "", inits |-> 0,
     new_device |-> << >>, request_button |-> 0, get_instances |-> 0,
     close |-> << >>, button_listeners |-> Undefined]

\* the state a handler works on: w.threw is set once a listener has thrown
World ==
    [sock |-> sock, client |-> client, surfaces |-> surfaces,
     added |-> added, removed |-> removed,
     out |-> << >>, calls |-> << >>, threw |-> FALSE]

\* this.surfaces.addDevice({ path: id }, 'streamdeck_plugin')
addDevice(w, c, id) ==
    [w EXCEPT !.surfaces = @ \cup {id},
              !.added[c] = @ + 1,
              !.calls = Append(@, [op |-> "addDevice", id |-> id,
                                   kind |-> "streamdeck_plugin"])]

\* this.surfaces.removeDevice(id)
removeDevice(w, c, id) ==
    [w EXCEPT !.surfaces = @ \ {id},
              !.removed[c] = @ + 1,
              !.calls = Append(@, [op |-> "removeDevice", id |-> id,
                                   kind |-> ""])]

\* socket.apireply(command, args) / socket.apicommand(command, args)
apireply(w, c, command, args) ==
    [w EXCEPT !.out = Append(@, socketResponse(c, command, args))]

apicommand(w, c, command, args) ==
    [w EXCEPT !.out = Append(@, socketCommand(c, command, args))]

\* this.client, the socket handleBankChanged pushes to
PushTarget_first(w) ==
    LET subscribed == {c \in Conns : w.sock[c].button_listeners # Undefined} IN
    IF subscribed = {} THEN NoClient
    ELSE CHOOSE c \in subscribed : \A d \in subscribed : c <= d

PushTarget(w) == w.client

\* handleBankChanged(page, bank), bank 1-based, pushing to target
handleBankChangedFor(w, target, page, bank1) ==
    LET bank == bank1 - 1 IN
    IF target # NoClient /\ w.sock[target].button_listeners # Undefined
    THEN LET listeners == w.sock[target].button_listeners[1] IN
         IF /\ page \in DOMAIN listeners.pages
            /\ listeners.pages[page] # Undefined
            /\ bank \in listeners.pages[page][1]
         THEN apicommand(w, target, "fillImage",
                         [page |-> page, bank |-> bank, keyIndex |-> bank,
                          data |-> getBank(page, bank + 1).buffer])
         ELSE w
    ELSE w

handleBankChanged(w, page, bank1) ==
    handleBankChangedFor(w, PushTarget(w), page, bank1)

\* the new_device listener of initAPI1 (api = 1) or initAPI2 (api = 2)
NewDeviceListener(w, c, api, clientId) ==
    LET id == DeviceId(w.sock[c].addr, clientId)
        w1 == addDevice(w, c, id)
        w2 == [w1 EXCEPT !.calls = Append(@, [op |-> "plugin_startup",
                                              id |-> id, kind |-> ""])]
        w3 == apireply(w2, c, "new_device", [result |-> "true"])
    IN  IF api = 1
        THEN [w3 EXCEPT !.sock[c].get_instances = @ + 1,
                        !.sock[c].close = Append(@, 1)]
        ELSE [w3 EXCEPT !.sock[c].button_listeners =
                            << [dynamic |-> {}, static |-> {},
                                pages |-> [p \in Pages |-> Undefined]] >>,
                        !.client = c,
                        !.sock[c].close = Append(@, 2)]

\* the close listener added by the new_device listener of API version api
CloseListener(w, c, api) ==
    LET id == DeviceId(w.sock[c].addr, "") IN
    IF api = 1
    THEN removeDevice(w, c, id)
    ELSE LET w1 == [w EXCEPT !.sock[c].button_listeners = Undefined]
             w2 == removeDevice(w1, c, id)
         IN  [w2 EXCEPT !.client = NoClient]

\* the request_button listener of initAPI2
RequestButtonListener_lenient(w, c, page, bank) ==
    IF w.sock[c].button_listeners = Undefined
    THEN apireply(w, c, "request_button", [result |-> "ok"])
    ELSE LET old == w.sock[c].button_listeners[1].pages[page]
             banks == IF old = Undefined THEN {} ELSE old[1]
             w1 == [w EXCEPT !.sock[c].button_listeners[1].pages[page] =
                                 << banks \cup {bank} >>]
             w2 == apireply(w1, c, "request_button", [result |-> "ok"])
         IN  handleBankChanged(w2, page, bank + 1)

RequestButtonListener_client(w, c, page, bank) ==
    IF w.client = NoClient \/ w.sock[c].button_listeners = Undefined
    THEN [w EXCEPT !.threw = TRUE]
    ELSE LET old == w.sock[w.client].button_listeners[1].pages[page]
             banks == IF old = Undefined THEN {} ELSE old[1]
             w1 == [w EXCEPT
                       !.sock[w.client].button_listeners[1].pages[page] =
                           << banks \cup {bank} >>]
             w2 == apireply(w1, c, "request_button", [result |-> "ok"])
         IN  handleBankChanged(w2, page, bank + 1)

RequestButtonListener(w, c, page, bank) ==
    IF w.sock[c].button_listeners = Undefined
    THEN [w EXCEPT !.threw = TRUE]
    ELSE LET old == w.sock[c].button_listeners[1].pages[page]
             banks == IF old = Undefined THEN {} ELSE old[1]
             w1 == [w EXCEPT !.sock[c].button_listeners[1].pages[page] =
                                 << banks \cup {bank} >>]
             w2 == apireply(w1, c, "request_button", [result |-> "ok"])
         IN  handleBankChanged(w2, page, bank + 1)

\* the unrequest_button listener of initAPI2
UnrequestButtonListener_keep(w, c, page, bank) ==
    IF w.sock[c].button_listeners = Undefined
    THEN [w EXCEPT !.threw = TRUE]
    ELSE apireply(w, c, "request_button", [result |-> "ok"])

UnrequestButtonListener(w, c, page, bank) ==
    IF w.sock[c].button_listeners = Undefined
    THEN [w EXCEPT !.threw = TRUE]
    ELSE LET old == w.sock[c].button_listeners[1].pages[page]
             w1 == IF old = Undefined THEN w
                   ELSE [w EXCEPT !.sock[c].button_listeners[1].pages[page] =
                                      << old[1] \ {bank} >>]
         IN  apireply(w1, c, "request_button", [result |-> "ok"])

\* the get_instances listener added by the new_device listener of initAPI1
GetInstancesListener(w, c) ==
    apireply(w, c, "get_instances", [instances |-> "instance"])

\* args.version > 2
TooNewApi_none(version) == FALSE

TooNewApi(version) == version > 2

\* args.version === 1
IsApi1_never(version) == FALSE

IsApi1(version) == version = 1

\* the version listener of initSocket
VersionListener(w, c, version) ==
    IF TooNewApi(version)
    THEN LET w1 == apireply(w, c, "version",
                            [version |-> 2, error |-> "cannot continue"])
         IN  [w1 EXCEPT !.sock[c].state = "closing"]
    ELSE IF IsApi1(version)
    THEN LET w1 == apireply(w, c, "version", [version |-> 1])
         IN  [w1 EXCEPT !.sock[c].inits = @ + 1,
                        !.sock[c].new_device = Append(@, 1)]
    ELSE LET w1 == apireply(w, c, "version", [version |-> 2])
         IN  [w1 EXCEPT !.sock[c].inits = @ + 1,
                        !.sock[c].new_device = Append(@, 2),
                        !.sock[c].request_button = @ + 1]

\* socket.emit(command, args): the listeners of the event run in the order
\* they were added; a listener that throws ends the emit

\* once('new_device'): every pending listener is removed and run
RECURSIVE EmitNewDeviceFrom(_, _, _, _, _)
EmitNewDeviceFrom(w, c, pending, k, clientId) ==
    IF k > Len(pending) \/ w.threw THEN w
    ELSE EmitNewDeviceFrom(NewDeviceListener(w, c, pending[k], clientId),
                           c, pending, k + 1, clientId)

EmitNewDevice(w, c, clientId) ==
    EmitNewDeviceFrom([w EXCEPT !.sock[c].new_device = << >>], c,
                      w.sock[c].new_device, 1, clientId)

RECURSIVE EmitCloseFrom(_, _, _, _)
EmitCloseFrom(w, c, listeners, k) ==
    IF k > Len(listeners) \/ w.threw THEN w
    ELSE EmitCloseFrom(CloseListener(w, c, listeners[k]), c, listeners, k + 1)

EmitClose(w, c) == EmitCloseFrom(w, c, w.sock[c].close, 1)

RECURSIVE EmitGetInstances(_, _, _)
EmitGetInstances(w, c, n) ==
    IF n = 0 \/ w.threw THEN w
    ELSE EmitGetInstances(GetInstancesListener(w, c), c, n - 1)

RECURSIVE EmitRequestButton(_, _, _, _, _)
EmitRequestButton(w, c, n, page, bank) ==
    IF n = 0 \/ w.threw THEN w
    ELSE EmitRequestButton(RequestButtonListener(w, c, page, bank),
                           c, n - 1, page, bank)

RECURSIVE EmitUnrequestButton(_, _, _, _, _)
EmitUnrequestButton(w, c, n, page, bank) ==
    IF n = 0 \/ w.threw THEN w
    ELSE EmitUnrequestButton(UnrequestButtonListener(w, c, page, bank),
                             c, n - 1, page, bank)

\* a listener that reads a field of its argument (args.version, args.page)
\* throws a TypeError when the frame has no arguments
ReadsArguments(w, c, cmd) ==
    \/ cmd = "version"
    \/ cmd \in {"request_button", "unrequest_button"}
          /\ w.sock[c].request_button > 0

\* socket.emit(data.command, data.arguments) of the message listener; a frame
\* without a command emits the event undefined, which has no listener
Emit(w, c, m) ==
    IF m.form = "noargs"
    THEN IF ReadsArguments(w, c, m.cmd) THEN [w EXCEPT !.threw = TRUE] ELSE w
    ELSE
    CASE m.cmd = "version" -> VersionListener(w, c, m.version)
      [] m.cmd = "new_device" -> EmitNewDevice(w, c, m.id)
      [] m.cmd = "get_instances" ->
            EmitGetInstances(w, c, w.sock[c].get_instances)
      [] m.cmd = "request_button" ->
            EmitRequestButton(w, c, w.sock[c].request_button, m.page, m.bank)
      [] m.cmd = "unrequest_button" ->
            EmitUnrequestButton(w, c, w.sock[c].request_button, m.page, m.bank)
      [] m.cmd = "close" -> EmitClose(w, c)
      [] OTHER -> w

\* the frames a peer sends. form "json": a JSON object with a command and the
\* arguments the command takes (new_device, get_instances and close listeners
\* read none). The other forms are not well-formed messages:
\*   "binary"  a frame whose type is not utf8
\*   "text"    utf8 data that is not JSON
\*   "null"    the JSON value null
\*   "value"   a JSON value without a command property
\*   "noargs"  a command whose listener reads its arguments, sent without any
MalformedFrames ==
    {[form |-> f, cmd |-> "", version |-> Unset, id |-> "", page |-> 0,
      bank |-> 0] : f \in {"binary", "text", "null", "value"}}
    \cup {[form |-> "noargs", cmd |-> k, version |-> Unset, id |-> "",
           page |-> 0, bank |-> 0] :
        k \in {"version", "request_button", "unrequest_button"}}

Frames ==
    {[form |-> "json", cmd |-> "version", version |-> v, id |-> "",
      page |-> 0, bank |-> 0] : v \in VersionArgs}
    \cup {[form |-> "json", cmd |-> "new_device", version |-> Unset, id |-> i,
           page |-> 0, bank |-> 0] : i \in {"x", "y"}}
    \cup {[form |-> "json", cmd |-> k, version |-> Unset, id |-> "",
           page |-> 0, bank |-> 0] : k \in {"get_instances", "close", "other"}}
    \cup {[form |-> "json", cmd |-> k, version |-> Unset, id |-> "",
           page |-> p, bank |-> b] :
        k \in {"request_button", "unrequest_button"}, p \in Pages, b \in Banks}
    \cup MalformedFrames

\* if (message.type == 'utf8')
IsUtf8(m) == m.form # "binary"

\* JSON.parse(message.utf8Data) throws a SyntaxError on text that is not JSON;
\* data.command throws a TypeError when data is null
ParseThrows(m) == m.form \in {"text", "null"}

\* catch (e) { this.debug('protocol error:', e) }: the error is logged
Caught_close(w, c) == [w EXCEPT !.sock[c].state = "closing"]

Caught(w, c) == w

\* the state a handler leaves behind; the messages it sent (w.out) and the
\* collaborator calls it made (w.calls) are its outputs
Commit(w) ==
    /\ sock' = w.sock
    /\ client' = w.client
    /\ surfaces' = w.surfaces
    /\ added' = w.added
    /\ removed' = w.removed
    /\ pushed' = SelectSeq(w.out, LAMBDA msg : msg.type = "command")

\* what handling frame m on connection c does in the current state
OnMessage(c, m) ==
    IF ~IsUtf8(m) THEN World
    ELSE IF ParseThrows(m) THEN Caught([World EXCEPT !.threw = TRUE], c)
    ELSE LET w == Emit(World, c, m) IN
         IF w.threw THEN Caught(w, c) ELSE w

\* what the close of connection c does in the current state
OnClose(c) == EmitClose([World EXCEPT !.sock[c].state = "closed"], c)

\* what graphics_bank_invalidated(page, bank) does in the current state
OnBankChanged(page, bank1) == handleBankChanged(World, page, bank1)

\* processIncoming, lines 238-243: a connection is accepted. Connections
\* are numbered in the order they are accepted, and the first one comes from
\* the first address (the addresses are interchangeable)
ProcessIncoming(c, addr) ==
    /\ nev < MaxEvents
    /\ nev' = nev + 1
    /\ sock[c].state = "none"
    /\ \A d \in Conns : d < c => sock[d].state # "none"
    /\ c = 1 => addr = "10.0.0.1"
    /\ Commit([World EXCEPT !.sock[c] = NewSocket(addr)])
    /\ UNCHANGED <<uvars, kvars>>

\* the message listener of processIncoming, lines 244-254
CanHandle(c, m) ==
    /\ nev < MaxEvents
    /\ sock[c].state = "open"
    /\ m.cmd = "version" => sock[c].inits < MaxInits

Message(c, m) ==
    /\ CanHandle(c, m)
    /\ nev' = nev + 1
    /\ Commit(OnMessage(c, m))
    /\ UNCHANGED <<uvars, kvars>>

\* the connection closes: the close listeners run
CanClose(c) ==
    /\ nev < MaxEvents
    /\ sock[c].state \in {"open", "closing"}

Close(c) ==
    /\ CanClose(c)
    /\ nev' = nev + 1
    /\ Commit(OnClose(c))
    /\ UNCHANGED <<uvars, kvars>>

\* graphics_bank_invalidated: handleBankChanged(page, bank), bank 1-based
BankChanged(page, bank1) ==
    /\ Commit(OnBankChanged(page, bank1))
    /\ UNCHANGED <<nev, uvars, kvars>>

InitPluginIdle ==
    /\ sock = [c \in Conns |-> NoSocket]
    /\ client = NoClient
    /\ surfaces = {}
    /\ added = [c \in Conns |-> 0]
    /\ removed = [c \in Conns |-> 0]
    /\ nev = 0
    /\ pushed = << >>

----------------------------------------------------------------------------
(* lib/Resources/Util.js *)

\* global.MAX_BUTTONS, global.MAX_BUTTONS_PER_ROW (lib/Registry.js)
MAX_BUTTONS == 32

MAX_BUTTONS_PER_ROW == 8

\* if (keysTotal == global.MAX_BUTTONS)
IsFullGrid(keysTotal, keysPerRow) == keysTotal = MAX_BUTTONS

\* toDeviceKey(keysTotal, keysPerRow, key); row >= keysTotal / keysPerRow is
\* a comparison with a quotient of reals, the same as row * keysPerRow >=
\* keysTotal
toDeviceKey(keysTotal, keysPerRow, key) ==
    IF IsFullGrid(keysTotal, keysPerRow) THEN key
    ELSE IF key % MAX_BUTTONS_PER_ROW > keysPerRow THEN 0 - 1
    ELSE LET row == key \div MAX_BUTTONS_PER_ROW
             col == key % MAX_BUTTONS_PER_ROW
         IN  IF row * keysPerRow >= keysTotal \/ col >= keysPerRow
             THEN 0 - 1
             ELSE row * keysPerRow + col

\* toGlobalKey(keysPerRow, key)
toGlobalKey_oneBased(keysPerRow, key) ==
    (key \div keysPerRow) * MAX_BUTTONS_PER_ROW + (key % keysPerRow) + 1

toGlobalKey(keysPerRow, key) ==
    LET rows == key \div keysPerRow
        col == key % keysPerRow
    IN  rows * MAX_BUTTONS_PER_ROW + col

\* from15to32(key)
from15to32_noOffset(key) ==
    LET res == ((key - 1) \div 5) * 8 + ((key - 1) % 5) IN
    IF res >= 32 THEN 31 ELSE res

from15to32(key) ==
    LET k == key - 1
        rows == k \div 5
        col == (k % 5) + 1
        res == rows * 8 + col
    IN  IF res >= 32 THEN 31 ELSE res

\* the device layouts: keysPerRow in 1..MAX_BUTTONS_PER_ROW, keysTotal a
\* positive multiple of keysPerRow
Layouts ==
    {[keysTotal |-> rows * perRow, keysPerRow |-> perRow] :
        rows \in 1..MaxRows, perRow \in 1..MAX_BUTTONS_PER_ROW}

NoCall == [op |-> "none", key |-> 0, res |-> 0]

\* toDeviceKey is applied to a key of the logical grid
ToDeviceKey(key) ==
    /\ kcall' = [op |-> "toDeviceKey", key |-> key,
                 res |-> toDeviceKey(layout.keysTotal, layout.keysPerRow, key)]
    /\ UNCHANGED <<layout, uvars, pvars>>

\* toGlobalKey is applied to a key of the device
ToGlobalKey(key) ==
    /\ key < layout.keysTotal
    /\ kcall' = [op |-> "toGlobalKey", key |-> key,
                 res |-> toGlobalKey(layout.keysPerRow, key)]
    /\ UNCHANGED <<layout, uvars, pvars>>

\* toDeviceKey is applied to the key toGlobalKey has just returned
ToDeviceKeyOfGlobalKey ==
    /\ kcall.op = "toGlobalKey"
    /\ kcall' = [op |-> "roundTrip", key |-> kcall.key,
                 res |-> toDeviceKey(layout.keysTotal, layout.keysPerRow,
                                     kcall.res)]
    /\ UNCHANGED <<layout, uvars, pvars>>

\* from15to32 is applied to a key of a legacy page
From15to32(key) ==
    /\ kcall' = [op |-> "from15to32", key |-> key, res |-> from15to32(key)]
    /\ UNCHANGED <<layout, uvars, pvars>>

InitKeysIdle ==
    /\ layout = [keysTotal |-> MAX_BUTTONS, keysPerRow |-> MAX_BUTTONS_PER_ROW]
    /\ kcall = NoCall

----------------------------------------------------------------------------

InitUpgrade ==
    /\ InitPluginIdle
    /\ InitKeysIdle
    /\ db \in [ver : {Unset} \cup StoredVersions, data : {<< >>}]
    /\ upc = "idle"
    /\ ui = 0
    /\ ulog = << >>
    /\ files = [i \in StoredVersions |-> NoFile]
    /\ runs = 0
    /\ startDb = db
    /\ hasImport \in [Steps -> BOOLEAN]
    /\ imp = [called |-> FALSE, arg |-> [version |-> Unset, data |-> << >>],
              out |-> [version |-> Unset, data |-> << >>], log |-> << >>]

NextUpgrade ==
    \/ UpgradeStartupBegin
    \/ \E outcome \in CopyOutcomes : SaveUpgradeCopy(outcome)
    \/ RunUpgradeScript
    \/ UpgradeStartupFinish
    \/ UpgradeImport

SpecUpgrade == InitUpgrade /\ [][NextUpgrade]_vars

\* the store after the migrator has brought it to the target version
InitUpgraded ==
    /\ db = [ver |-> targetVersion, data |-> << >>]
    /\ upc = "done"
    /\ ui = targetVersion
    /\ ulog = << >>
    /\ files = [i \in StoredVersions |-> NoFile]
    /\ runs = MaxRuns
    /\ startDb = db
    /\ hasImport = [i \in Steps |-> TRUE]
    /\ imp = [called |-> FALSE, arg |-> [version |-> Unset, data |-> << >>],
              out |-> [version |-> Unset, data |-> << >>], log |-> << >>]

\* the service starts on a store that the migrator has brought to the target
InitPlugin ==
    /\ InitPluginIdle
    /\ InitKeysIdle
    /\ InitUpgraded

NextPlugin ==
    \/ \E c \in Conns, addr \in Addrs : ProcessIncoming(c, addr)
    \/ \E c \in Conns, m \in Frames : Message(c, m)
    \/ \E c \in Conns : Close(c)
    \/ \E page \in Pages, bank1 \in {b + 1 : b \in Banks} : BankChanged(page, bank1)

SpecPlugin == InitPlugin /\ [][NextPlugin]_vars

\* the key mapping functions, applied to the keys of one device layout
InitKeys ==
    /\ InitPluginIdle
    /\ InitUpgraded
    /\ layout \in Layouts
    /\ kcall = NoCall

NextKeys ==
    \/ \E key \in 0..(MAX_BUTTONS - 1) : ToDeviceKey(key)
    \/ \E key \in 0..(MaxRows * MAX_BUTTONS_PER_ROW - 1) : ToGlobalKey(key)
    \/ ToDeviceKeyOfGlobalKey
    \/ \E key \in 1..MaxLegacyKey : From15to32(key)

SpecKeys == InitKeys /\ [][NextKeys]_vars


----------------------------------------------------------------------------
(* Properties of the migrator *)

\* the sequence <<a, a+1, ..., b-1>>
Range(a, b) == [k \in 1..(b - a) |-> a + k - 1]

\* the versions i of the entries of log with the given op, in order
Entries(log, op) ==
    LET sel == SelectSeq(log, LAMBDA e : e.op = op) IN
    [k \in 1..Len(sel) |-> sel[k].i]

\* the version the current run read from the store
RunVersion == IF startDb.ver = Unset THEN 1 ELSE startDb.ver

\* the store as it is at version i of the current run
StoreAt(i) == [startDb EXCEPT !.data = @ \o Range(RunVersion, i)]

\* C1: a run of upgradeStartup on a store at version v, 1 <= v <= N, applies
\* exactly the steps v, v+1, ..., N-1, once each and in ascending order (so
\* none when v = N); while the loop runs, the steps applied so far are
\* v .. i-1.
C1_StepsInOrder ==
    (runs > 0 /\ RunVersion \in 1..targetVersion) =>
        /\ upc \in {"copy", "apply"} =>
              /\ Entries(ulog, "step") = Range(RunVersion, ui)
              /\ db = StoreAt(ui)
        /\ upc = "done" =>
              /\ Entries(ulog, "step") = Range(RunVersion, targetVersion)
              /\ db.data = StoreAt(targetVersion).data

C1_Witness ==
    /\ upc = "done"
    /\ startDb.ver = 1
    /\ Entries(ulog, "step") = <<1, 2>>

\* C2: a run that finds page_config_version greater than the target version
\* halts at once: no step is applied, no snapshot is written, the version key
\* is not rewritten and save is not called.
C2_TooNewHalts ==
    (runs > 0 /\ RunVersion > targetVersion) =>
        /\ upc = "fatal"
        /\ ulog = << >>
        /\ db = startDb
        /\ \A i \in DOMAIN files : files[i] = NoFile

C2_Witness ==
    /\ upc = "fatal"
    /\ startDb.ver = targetVersion + 1

\* C3: a second run of upgradeStartup on the same store applies no step,
\* writes no snapshot, leaves every key other than page_config_version as it
\* was, and page_config_version is still the target version.
C3_SecondRunNoOp ==
    runs >= 2 =>
        /\ startDb.ver = targetVersion
        /\ Entries(ulog, "step") = << >>
        /\ Entries(ulog, "copy") = << >>
        /\ db.data = startDb.data
        /\ db.ver = targetVersion
        /\ upc \in {"copy", "done"}

C3_Witness ==
    /\ runs = 2
    /\ upc = "done"
    /\ db.data = <<1, 2>>

\* C4: neither upgradeStartup nor upgradeImport ever lowers a version: the
\* version after a completed run is >= the version before it, and the version
\* of the object upgradeImport returns is >= the version it came in with.
C4_VersionNeverLowered ==
    /\ upc = "done" => db.ver >= RunVersion
    /\ imp.called => imp.out.version >= imp.arg.version

\* C5: upgradeImport on an object at version v (absent counts as 1) runs, in
\* ascending order and once each, the import transform of exactly the steps in
\* v..N-1 that define one, then sets version to N; an object already at
\* version N comes back unchanged.
C5_ImportSteps ==
    imp.called =>
        LET v == IF imp.arg.version = Unset THEN 1 ELSE imp.arg.version
            expected == SelectSeq(Range(v, targetVersion),
                                  LAMBDA i : i \in Steps /\ hasImport[i])
        IN  /\ imp.log = expected
            /\ imp.out.data = imp.arg.data \o expected
            /\ imp.out.version = targetVersion
            /\ imp.arg.version = targetVersion => imp.out = imp.arg

C5_Witness ==
    /\ imp.called
    /\ imp.arg.version = Unset
    /\ ~hasImport[1]
    /\ imp.log = <<2>>

\* C6: a failing snapshot write does not abort the migration: after a failed
\* write for step i the step is applied next, and a run in which snapshot
\* writes failed still ends with every step applied in order, the store
\* stamped with the target version and save called last.
C6_CopyErrorNoAbort ==
    /\ upc \in {"idle", "copy", "apply", "done", "fatal"}
    /\ (ulog # << >> /\ ulog[Len(ulog)].op = "copyError") =>
          /\ upc = "apply"
          /\ ui = ulog[Len(ulog)].i
    /\ (upc = "done" /\ RunVersion <= targetVersion) =>
          /\ Entries(ulog, "step") = Range(RunVersion, targetVersion)
          /\ db.ver = targetVersion
          /\ ulog[Len(ulog)].op = "save"
          /\ ulog[Len(ulog) - 1] = [op |-> "setKey", i |-> targetVersion]

C6_Witness ==
    /\ upc = "done"
    /\ Entries(ulog, "copyError") = <<1, 2>>
    /\ Entries(ulog, "step") = <<1, 2>>
    /\ db.ver = targetVersion

\* C7 as stated: for every step i applied, exactly one snapshot is written,
\* named by i, before the step runs, holding the store as it was at version i.
C7_ExactlyOneCopy ==
    \A k \in DOMAIN ulog :
        ulog[k].op = "step" =>
            /\ k > 1
            /\ ulog[k - 1] = [op |-> "copy", i |-> ulog[k].i]
            /\ Len(SelectSeq(ulog, LAMBDA e : e = ulog[k - 1])) = 1
            /\ files[ulog[k].i] = << StoreAt(ulog[k].i) >>

\* C7 as amended: for every step i applied, saveUpgradeCopy ran exactly once
\* for i, directly before the step; it wrote at most one snapshot, and wrote
\* it unless the store had no serialized form or the write failed; a snapshot
\* written is named by i and holds the store as it was at version i.
C7_CopyBeforeStep ==
    \A k \in DOMAIN ulog :
        ulog[k].op = "step" =>
            LET i == ulog[k].i IN
            /\ k > 1
            /\ ulog[k - 1].i = i
            /\ ulog[k - 1].op \in {"copy", "copySkipped", "copyError"}
            /\ Len(SelectSeq(ulog, LAMBDA e :
                     e.i = i /\ e.op \in {"copy", "copySkipped", "copyError"})) = 1
            /\ ulog[k - 1].op = "copy" => files[i] = << StoreAt(i) >>
            /\ (runs = 1 /\ ulog[k - 1].op # "copy") => files[i] = NoFile

C7_Witness ==
    /\ upc = "done"
    /\ ulog[1] = [op |-> "copy", i |-> 1]
    /\ ulog[2] = [op |-> "step", i |-> 1]
    /\ ulog[3] = [op |-> "copy", i |-> 2]
    /\ files[2] = << [ver |-> 1, data |-> <<1>>] >>

----------------------------------------------------------------------------
(* Properties of the plugin service *)

VersionFrame(v) ==
    [form |-> "json", cmd |-> "version", version |-> v, id |-> "",
     page |-> 0, bank |-> 0]

NewDeviceFrame(id) ==
    [form |-> "json", cmd |-> "new_device", version |-> Unset, id |-> id,
     page |-> 0, bank |-> 0]

ButtonFrame(cmd, page, bank) ==
    [form |-> "json", cmd |-> cmd, version |-> Unset, id |-> "",
     page |-> page, bank |-> bank]

\* state Connected: the connection is open and no version message was handled
Connected(c) == sock[c].state = "open" /\ sock[c].inits = 0

\* the addDevice calls among the collaborator calls of a handler
AddCalls(w) == SelectSeq(w.calls, LAMBDA call : call.op = "addDevice")

\* C8: version{v} with v > 2 on a connection in state Connected is answered
\* with one version response carrying an error and version 2, the connection
\* is closed, and no addDevice call is made for the connection then or later:
\* a connection rejected this way handles no further frame.
C8_RejectFutureVersion ==
    \A c \in Conns :
        /\ Connected(c) =>
              \A v \in VersionArgs : v > 2 =>
                  LET r == OnMessage(c, VersionFrame(v)) IN
                  /\ r.out = << socketResponse(c, "version",
                                   [version |-> 2, error |-> "cannot continue"]) >>
                  /\ r.sock[c].state = "closing"
                  /\ r.sock[c].new_device = << >>
                  /\ r.calls = << >>
                  /\ r.added = added
        /\ (sock[c].state \in {"closing", "closed"} /\ sock[c].inits = 0) =>
              /\ added[c] = 0
              /\ sock[c].new_device = << >>
              /\ \A m \in Frames : ~ENABLED Message(c, m)

C8_Witness ==
    \E c \in Conns :
        /\ sock[c].state = "closing"
        /\ sock[c].inits = 0
        /\ nev = 2

\* C9: in state Connected, version{1} is answered with {version: 1} and
\* installs the V1 listeners only (new_device, later get_instances; no button
\* subscriptions); version{v} with v = 0, v = 2 or no version field is
\* answered with {version: 2} and installs the V2 listeners, awaiting
\* new_device. A session that only negotiated V1 never has subscriptions, is
\* never the push target and gets no reply to request_button.
C9_Negotiation ==
    \A c \in Conns :
        /\ Connected(c) =>
              /\ LET r == OnMessage(c, VersionFrame(1)) IN
                  /\ r.out = << socketResponse(c, "version", [version |-> 1]) >>
                  /\ r.sock[c] = [sock[c] EXCEPT !.inits = 1,
                                                 !.new_device = <<1>>]
                  /\ r.calls = << >>
              /\ \A v \in {Unset, 0, 2} :
                  LET r == OnMessage(c, VersionFrame(v)) IN
                  /\ r.out = << socketResponse(c, "version", [version |-> 2]) >>
                  /\ r.sock[c] = [sock[c] EXCEPT !.inits = 1,
                                                 !.new_device = <<2>>,
                                                 !.request_button = 1]
                  /\ r.sock[c].button_listeners = Undefined
                  /\ r.calls = << >>
        /\ (sock[c].inits > 0 /\ sock[c].request_button = 0) =>
              /\ sock[c].button_listeners = Undefined
              /\ client # c
              /\ \A p \in Pages, b \in Banks :
                    sock[c].state = "open" =>
                        LET r == OnMessage(c, ButtonFrame("request_button", p, b)) IN
                        r.out = << >> /\ r.sock = sock
              /\ (sock[c].state = "open" /\ sock[c].get_instances > 0) =>
                    OnMessage(c, ButtonFrame("get_instances", 0, 0)).out # << >>

C9_Witness ==
    \E c, d \in Conns :
        /\ sock[c].inits = 1 /\ sock[c].new_device = <<1>>
        /\ sock[c].request_button = 0
        /\ sock[d].inits = 1 /\ sock[d].new_device = <<2>>
        /\ sock[d].request_button = 1

\* C10: after version negotiation, the first new_device{id} on a connection
\* causes exactly one addDevice call, under the identifier derived from the
\* remote address whatever the id sent, followed by exactly one reply
\* new_device{result: true}; in V2 the session then has empty dynamic and
\* static subscription sets.
C10_FirstNewDevice ==
    \A c \in Conns :
        (sock[c].state = "open" /\ sock[c].inits > 0 /\ added[c] = 0) =>
            \A id \in {"x", "y"} :
                LET r == OnMessage(c, NewDeviceFrame(id)) IN
                /\ AddCalls(r) = << [op |-> "addDevice",
                                     id |-> <<"elgato_plugin-", sock[c].addr>>,
                                     kind |-> "streamdeck_plugin"] >>
                /\ r.added[c] = 1
                /\ r.out = << socketResponse(c, "new_device", [result |-> "true"]) >>
                /\ sock[c].request_button > 0 =>
                      /\ r.sock[c].button_listeners # Undefined
                      /\ r.sock[c].button_listeners[1].dynamic = {}
                      /\ r.sock[c].button_listeners[1].static = {}

\* state V2Subscribed: the connection is open and its new_device listener of
\* initAPI2 has run (socket.button_listeners is set)
V2Subscribed(c) == sock[c].state = "open" /\ sock[c].button_listeners # Undefined

\* the banks of page p that the socket record s subscribes to
Subscribed(s, p) ==
    IF s.button_listeners = Undefined THEN {}
    ELSE IF s.button_listeners[1].pages[p] = Undefined THEN {}
    ELSE s.button_listeners[1].pages[p][1]

\* the fillImage command for button (p, b), b 0-based, sent to connection c
FillImage(c, p, b) ==
    socketCommand(c, "fillImage",
                  [page |-> p, bank |-> b, keyIndex |-> b,
                   data |-> getBank(p, b + 1).buffer])

\* C11: in state V2Subscribed, whatever other V2 sessions are attached,
\* request_button{page, bank} adds (page, bank) to the subscription set of the
\* requesting session, which gets the reply request_button{result: 'ok'} and
\* then exactly one fillImage for that page and bank; nothing else is sent.
C11_RequestButton ==
    \A c \in Conns :
        V2Subscribed(c) =>
            \A p \in Pages, b \in Banks :
                LET r == OnMessage(c, ButtonFrame("request_button", p, b)) IN
                /\ Subscribed(r.sock[c], p) = Subscribed(sock[c], p) \cup {b}
                /\ r.out = << socketResponse(c, "request_button",
                                             [result |-> "ok"]),
                              FillImage(c, p, b) >>

\* the messages of out sent to connection c
SentTo(out, c) == SelectSeq(out, LAMBDA msg : msg.to = c)

\* C12: in state V2Subscribed, unrequest_button{page, bank} removes (page,
\* bank) from the subscription set of the session, leaves its other
\* subscriptions as they were and is answered with {result: 'ok'} (once per
\* version message the connection sent). While (page, bank) is not in the set
\* of a session, an image change of that button sends the session no
\* fillImage, and no frame handled, close or image change puts the button
\* back or sends the session its image, except a request_button{page, bank}
\* of the session itself.
C12_UnrequestButton ==
    /\ \A c \in Conns, p \in Pages, b \in Banks :
          LET m == ButtonFrame("unrequest_button", p, b) IN
          (V2Subscribed(c) /\ CanHandle(c, m)) =>
              LET r == OnMessage(c, m) IN
              /\ Subscribed(r.sock[c], p) = Subscribed(sock[c], p) \ {b}
              /\ \A q \in Pages \ {p} :
                    Subscribed(r.sock[c], q) = Subscribed(sock[c], q)
              /\ Len(r.out) = sock[c].request_button
              /\ Len(r.out) >= 1
              /\ \A k \in DOMAIN r.out :
                    r.out[k] = socketResponse(c, "request_button",
                                              [result |-> "ok"])
              /\ SentTo(handleBankChanged([r EXCEPT !.out = << >>],
                                           p, b + 1).out, c) = << >>
              /\ [r EXCEPT !.out = << >>, !.sock[c] = sock[c]] = World
    /\ \A c \in Conns, p \in Pages, b \in Banks :
          b \notin Subscribed(sock[c], p) =>
              LET r == OnBankChanged(p, b + 1) IN
              /\ SentTo(r.out, c) = << >>
              /\ r.sock = sock
    /\ \A d \in Conns, m \in Frames :
          CanHandle(d, m) =>
              LET r == OnMessage(d, m) IN
              \A c \in Conns, p \in Pages, b \in Banks :
                  (/\ b \notin Subscribed(sock[c], p)
                   /\ ~(d = c /\ m = ButtonFrame("request_button", p, b))) =>
                      /\ b \notin Subscribed(r.sock[c], p)
                      /\ \A k \in DOMAIN r.out : r.out[k] # FillImage(c, p, b)
    /\ \A d \in Conns :
          CanClose(d) =>
              LET r == OnClose(d) IN
              \A c \in Conns, p \in Pages, b \in Banks :
                  b \notin Subscribed(sock[c], p) =>
                      b \notin Subscribed(r.sock[c], p)

\* a session that is the push target has dropped bank 0 and kept bank 1: an
\* image change of bank 0 sends nothing, one of bank 1 sends the image
C12_Witness ==
    \E c \in Conns :
        /\ V2Subscribed(c)
        /\ client = c
        /\ nev = 6
        /\ Subscribed(sock[c], 1) = {1}
        /\ OnBankChanged(1, 1).out = << >>
        /\ OnBankChanged(1, 2).out = << FillImage(c, 1, 1) >>
        /\ OnMessage(c, ButtonFrame("unrequest_button", 1, 0)).sock = sock

\* the socket record s has a pending new_device listener of initAPI2
AwaitsV2Device(s) == \E k \in DOMAIN s.new_device : s.new_device[k] = 2

\* C13: an image change of (page, bank) sends at most one fillImage; it goes
\* to the V2 session that registered last (this.client is set by each V2
\* registration to the registering socket and otherwise only ever cleared),
\* and only if the button is in the subscription set of that session at that
\* moment; it carries the page, keyIndex equal to bank, and the buffer the
\* renderer has for the button. No other session is sent anything, and the
\* notification changes no state.
C13_PushOnlyToLastV2 ==
    /\ \A p \in Pages, b \in Banks :
          LET r == OnBankChanged(p, b + 1) IN
          /\ Len(r.out) <= 1
          /\ [r EXCEPT !.out = << >>] = World
          /\ r.out # << >> =>
                /\ client # NoClient
                /\ sock[client].request_button > 0
                /\ b \in Subscribed(sock[client], p)
                /\ r.out[1].to = client
                /\ r.out[1].type = "command"
                /\ r.out[1].name = "fillImage"
                /\ r.out[1].args.page = p
                /\ r.out[1].args.bank = b
                /\ r.out[1].args.keyIndex = r.out[1].args.bank
                /\ r.out[1].args.data = getBank(p, b + 1).buffer
    /\ \A k \in DOMAIN pushed : pushed[k].to = client
    /\ \A c \in Conns, m \in Frames :
          CanHandle(c, m) =>
              LET r == OnMessage(c, m) IN
              /\ (m.cmd = "new_device" /\ AwaitsV2Device(sock[c])) =>
                    r.client = c
              /\ r.client # client =>
                    \/ r.client = NoClient
                    \/ /\ r.client = c
                       /\ m.cmd = "new_device"
                       /\ AwaitsV2Device(sock[c])
                       /\ r.added[c] > added[c]
    /\ \A c \in Conns :
          CanClose(c) => OnClose(c).client \in {client, NoClient}

\* two V2 sessions are attached, the second registered last and asked for
\* bank 0: the image change of bank 0 was pushed to the second only
C13_Witness ==
    /\ V2Subscribed(1)
    /\ V2Subscribed(2)
    /\ client = 2
    /\ Subscribed(sock[2], 1) = {0}
    /\ nev = 7
    /\ pushed = << FillImage(2, 1, 0) >>
    /\ OnBankChanged(1, 1).out = pushed

\* the removeDevice calls among the collaborator calls of a handler
RemoveCalls(w) == SelectSeq(w.calls, LAMBDA call : call.op = "removeDevice")

\* C14: when the connection of a registered session closes, its subscription
\* state is cleared and removeDevice is called exactly once, in the same step,
\* with the identifier the session registered under; the close of a
\* connection that never sent new_device calls removeDevice not at all; so on
\* every connection the removeDevice calls never outnumber the addDevice
\* calls.
C14_CloseDeregisters ==
    \A c \in Conns :
        /\ removed[c] <= added[c]
        /\ sock[c].state \in {"open", "closing"} =>
              LET r == OnClose(c) IN
              /\ r.sock[c].button_listeners = Undefined
              /\ added[c] > 0 =>
                    RemoveCalls(r) = << [op |-> "removeDevice",
                                         id |-> DeviceId(sock[c].addr, ""),
                                         kind |-> ""] >>
              /\ added[c] = 0 => r.calls = << >>

C16_SessionsIndependent ==
    /\ \A c \in Conns, m \in Frames :
          CanHandle(c, m) =>
              LET r == OnMessage(c, m) IN
              \A d \in Conns \ {c} :
                  /\ r.sock[d] = sock[d]
                  /\ \A p \in Pages :
                        Subscribed(r.sock[d], p) = Subscribed(sock[d], p)
                  /\ r.added[d] = added[d]
                  /\ r.removed[d] = removed[d]
    /\ \A c \in Conns :
          CanClose(c) =>
              LET r == OnClose(c) IN
              \A d \in Conns \ {c} :
                  /\ r.sock[d] = sock[d]
                  /\ r.added[d] = added[d]
                  /\ r.removed[d] = removed[d]

\* connection 1 still holds the subscription it asked for after connection 2
\* negotiated V2 and registered, taking over the push target
C16_Witness ==
    /\ V2Subscribed(1)
    /\ Subscribed(sock[1], 1) = {0}
    /\ V2Subscribed(2)
    /\ Subscribed(sock[2], 1) = {}
    /\ client = 2
    /\ nev = 7
    /\ Subscribed(OnMessage(2, ButtonFrame("request_button", 1, 1)).sock[1], 1)
          = {0}

\* C21: with two registered V2 sessions of which the later registered one is
\* the push target, the close of the other session leaves the push target as
\* it is: the later session is still the push target and is still sent
\* fillImage for a change of every button it is subscribed to.
C21_CloseKeepsPushTarget ==
    \A a, b \in Conns :
        (/\ a # b
         /\ V2Subscribed(a)
         /\ V2Subscribed(b)
         /\ client = b
         /\ CanClose(a)) =>
            LET r == OnClose(a) IN
            /\ r.client = b
            /\ \A p \in Pages :
                  \A k \in Subscribed(sock[b], p) :
                      handleBankChanged([r EXCEPT !.out = << >>], p, k + 1).out
                          = << FillImage(b, p, k) >>


\* C22: in every reachable state the current-V2-client slot is empty or
\* refers to a connection that is open, has completed new_device and still
\* has its subscription state; no fillImage is sent to a session whose close
\* was handled.
C22_ClientSlotValid ==
    /\ client # NoClient =>
          /\ sock[client].state = "open"
          /\ added[client] > 0
          /\ sock[client].button_listeners # Undefined
    /\ \A k \in DOMAIN pushed : sock[pushed[k].to].state # "closed"
    /\ \A c \in Conns :
          sock[c].state = "closed" =>
              \A p \in Pages, b \in Banks :
                  SentTo(OnBankChanged(p, b + 1).out, c) = << >>

\* C23: registry consistency: every connection that has registered and is
\* still open has its device identifier in the surface registry, also when
\* two connections have the same remote address and so the same identifier.
C23_RegistryConsistent ==
    \A c \in Conns :
        (sock[c].state = "open" /\ added[c] > 0) =>
            DeviceId(sock[c].addr, "") \in surfaces

\* the replies and the fillImage commands among the messages a handler sent
Replies(out) == SelectSeq(out, LAMBDA msg : msg.type = "response")

FillImages(out) ==
    SelectSeq(out, LAMBDA msg : msg.type = "command" /\ msg.name = "fillImage")

\* C24: on any connection, after any sequence of frames (a version message
\* sent more than once included), one new_device, request_button or
\* unrequest_button frame yields at most one reply, at most one addDevice
\* call is made for the connection, and one request_button triggers at most
\* one fillImage.
C24_AtMostOnce ==
    /\ \A c \in Conns : added[c] <= 1
    /\ \A c \in Conns, m \in Frames :
          (/\ m.form = "json"
           /\ m.cmd \in {"new_device", "request_button", "unrequest_button"}
           /\ CanHandle(c, m)) =>
              LET r == OnMessage(c, m) IN
              /\ Len(Replies(r.out)) <= 1
              /\ Len(AddCalls(r)) <= 1
              /\ Len(FillImages(r.out)) <= 1

\* state V2 awaiting device: V2 was negotiated, the new_device listener of
\* initAPI2 is pending and the socket has no subscription state
V2AwaitingDevice(c) ==
    /\ sock[c].state = "open"
    /\ sock[c].request_button > 0
    /\ AwaitsV2Device(sock[c])
    /\ sock[c].button_listeners = Undefined

\* C25: request_button or unrequest_button on a V2 connection awaiting
\* new_device gets no reply and no fillImage, adds no subscription, makes no
\* registry call and leaves the connection open in the same state; a
\* new_device frame after it registers the connection as it would have
\* without it: addDevice is called, new_device{result: true} is sent, the
\* connection becomes the push target and its subscription sets are empty.
C25_EarlyRequestIgnored ==
    \A c \in Conns :
        V2AwaitingDevice(c) =>
            \A cmd \in {"request_button", "unrequest_button"} :
                \A p \in Pages, b \in Banks :
                    CanHandle(c, ButtonFrame(cmd, p, b)) =>
                        LET r == OnMessage(c, ButtonFrame(cmd, p, b))
                            after == [r EXCEPT !.threw = FALSE]
                            nd == Emit(after, c, NewDeviceFrame("x"))
                        IN  /\ r.out = << >>
                            /\ r.calls = << >>
                            /\ r.sock = sock
                            /\ r.client = client
                            /\ r.surfaces = surfaces
                            /\ r.added = added
                            /\ r.removed = removed
                            /\ nd = OnMessage(c, NewDeviceFrame("x"))
                            /\ AddCalls(nd) # << >>
                            /\ DeviceId(sock[c].addr, "x") \in nd.surfaces
                            /\ \E k \in DOMAIN nd.out :
                                  nd.out[k] = socketResponse(c, "new_device",
                                                  [result |-> "true"])
                            /\ nd.client = c
                            /\ nd.sock[c].state = "open"
                            /\ nd.sock[c].button_listeners
                                  = << [dynamic |-> {}, static |-> {},
                                        pages |-> [q \in Pages |-> Undefined]] >>

\* a connection negotiated V2 and sent one more frame that changed nothing:
\* request_button is discarded and new_device then registers the connection
C25_Witness ==
    \E c \in Conns :
        /\ V2AwaitingDevice(c)
        /\ sock[c].inits = 1
        /\ added[c] = 0
        /\ nev = 3
        /\ OnMessage(c, ButtonFrame("request_button", 1, 0)).threw
        /\ OnMessage(c, ButtonFrame("request_button", 1, 0)).sock = sock
        /\ OnMessage(c, NewDeviceFrame("x")).client = c

----------------------------------------------------------------------------
(* Properties of the key mapping *)

\* the layout invariant: 1 <= keysPerRow <= 8, keysTotal a positive multiple
\* of keysPerRow
ValidLayout(l) ==
    /\ l.keysPerRow \in 1..8
    /\ l.keysTotal > 0
    /\ l.keysTotal % l.keysPerRow = 0

\* C17: for every layout satisfying the layout invariant and every deviceKey
\* with 0 <= deviceKey < keysTotal, toDeviceKey(keysTotal, keysPerRow,
\* toGlobalKey(keysPerRow, deviceKey)) = deviceKey.
C17_RoundTrip ==
    (/\ kcall.op = "roundTrip"
     /\ ValidLayout(layout)
     /\ kcall.key \in 0..(layout.keysTotal - 1)) =>
        kcall.res = kcall.key

\* C18: for every valid layout and every logical key k in 0..31, toDeviceKey
\* returns k for the identity layout (32 keys, 8 per row); otherwise, with
\* row = k div 8 and col = k mod 8, it returns -1 exactly when col >=
\* keysPerRow or row >= keysTotal / keysPerRow, and row * keysPerRow + col in
\* every other case (7 for key 10 of the layout (15, 5)).
C18_CropPolicy ==
    (/\ kcall.op = "toDeviceKey"
     /\ ValidLayout(layout)
     /\ kcall.key \in 0..31) =>
        LET k == kcall.key
            row == k \div 8
            col == k % 8
        IN  /\ kcall.res =
                  IF layout.keysTotal = 32 /\ layout.keysPerRow = 8 THEN k
                  ELSE IF \/ col >= layout.keysPerRow
                          \/ row >= layout.keysTotal \div layout.keysPerRow
                       THEN 0 - 1
                       ELSE row * layout.keysPerRow + col
            /\ (layout.keysTotal = 15 /\ layout.keysPerRow = 5 /\ k = 10) =>
                  kcall.res = 7

\* C19 as stated: from15to32 returns 0 for legacy key 1, 8 for legacy key 6
\* and 18 for legacy key 15.
C19_LegacyKeysAsStated ==
    kcall.op = "from15to32" =>
        /\ kcall.key = 1 => kcall.res = 0
        /\ kcall.key = 6 => kcall.res = 8
        /\ kcall.key = 15 => kcall.res = 18

\* C19 as amended: from15to32 returns 1 for legacy key 1, 9 for legacy key 6
\* and 21 for legacy key 15: the five legacy columns become columns 1..5 of
\* the row of eight.
C19_LegacyKeys ==
    kcall.op = "from15to32" =>
        /\ kcall.key = 1 => kcall.res = 1
        /\ kcall.key = 6 => kcall.res = 9
        /\ kcall.key = 15 => kcall.res = 21

C19_Witness ==
    /\ kcall.op = "from15to32"
    /\ kcall.key = 15
    /\ kcall.res = 21

\* C20 as stated: for every layout satisfying the layout invariant and every
\* deviceKey in 0..keysTotal-1, toGlobalKey(keysPerRow, deviceKey) is a key of
\* the logical grid: 0 <= result < 32.
C20_GlobalKeyInGridAsStated ==
    (/\ kcall.op = "toGlobalKey"
     /\ ValidLayout(layout)
     /\ kcall.key \in 0..(layout.keysTotal - 1)) =>
        kcall.res \in 0..31

\* C20 as amended: for every layout satisfying the layout invariant that has
\* at most 4 rows (keysTotal <= 4 * keysPerRow) and every deviceKey in
\* 0..keysTotal-1, toGlobalKey(keysPerRow, deviceKey) is a key of the logical
\* grid: 0 <= result < 32.
C20_GlobalKeyInGrid ==
    (/\ kcall.op = "toGlobalKey"
     /\ ValidLayout(layout)
     /\ layout.keysTotal <= 4 * layout.keysPerRow
     /\ kcall.key \in 0..(layout.keysTotal - 1)) =>
        kcall.res \in 0..31

C20_Witness ==
    /\ kcall.op = "toGlobalKey"
    /\ layout = [keysTotal |-> 15, keysPerRow |-> 5]
    /\ kcall.key = 14
    /\ kcall.res = 20

====
